---- MODULE Spec2Model ----
(***************************************************************************)
(* rs_manifest_patcher: reconciliation of a local file tree against a      *)
(* manifest (FileOperation::process, Transaction::new), the transaction    *)
(* report (Transaction::generate_report) and the streaming download loop   *)
(* (Transaction::download), all of src/src/transaction.rs.                 *)
(*                                                                         *)
(* Strings that the code compares (hashes) are sequences of one-character  *)
(* strings.  Machine integers are scaled down from 64 to IntBits bits and  *)
(* keep their overflow behaviour.                                          *)
(***************************************************************************)
EXTENDS Integers, Sequences, FiniteSets, TLC

\* ------------------------------------------------------------------ bounds
MaxFiles == 2          \* files of a manifest handed to download
MaxReportFiles == 3    \* files of a manifest handed to generate_report
MaxChunks == 3         \* chunks all response streams of one download yield
IntBits == 4           \* width the 64-bit integers are scaled down to

\* ------------------------------------------------------- machine integers
I64Max == 2 ^ (IntBits - 1) - 1
I64Min == 0 - 2 ^ (IntBits - 1)

InI64(x) == I64Min <= x /\ x <= I64Max

\* two's complement wrap of x into the signed range
WrapI64(x) == ((x - I64Min) % (2 ^ IntBits)) + I64Min

\* `x as u64` for an i64 x: reinterpretation of the bits
AsU64(x) == x % (2 ^ IntBits)

\* u64::saturating_sub
SaturatingSub(a, b) == IF a >= b THEN a - b ELSE 0

\* A value of a computation that may panic.
Val(v) == [ok |-> TRUE, v |-> v]
Panic == [ok |-> FALSE, v |-> 0]

\* i64 `+` and `-`: an overflow panics in a build with overflow checks
\* ("debug") and wraps in one without ("release").
ArithI64(exact, bld) ==
    IF InI64(exact) THEN Val(exact)
    ELSE IF bld = "debug" THEN Panic
    ELSE Val(WrapI64(exact))

\* Iterator::sum over i64: a left fold with `+` from 0.
RECURSIVE SumFrom(_, _, _)
SumFrom(acc, s, bld) ==
    IF ~acc.ok \/ s = <<>> THEN acc
    ELSE SumFrom(ArithI64(acc.v + Head(s), bld), Tail(s), bld)

SumI64(s, bld) == SumFrom(Val(0), s, bld)

\* the mathematical sum of a sequence of integers
RECURSIVE ExactSum(_)
ExactSum(s) == IF s = <<>> THEN 0 ELSE Head(s) + ExactSum(Tail(s))

\* ------------------------------------------------------------ file system
\* A path of the tree is absent, a readable file ("file"), an entry that
\* stat() sees but read() fails on ("unreadable": no read permission, a
\* directory), or an entry whose metadata cannot be obtained ("noaccess":
\* a parent directory without search permission, a broken link).
Bytes == {1, 2}

Absent == [kind |-> "absent", data |-> <<>>]
File(d) == [kind |-> "file", data |-> d]
Unreadable(d) == [kind |-> "unreadable", data |-> d]
NoAccess(d) == [kind |-> "noaccess", data |-> d]

\* the entry is there, whatever the process can do with it
OnDisk(f) == f.kind # "absent"

\* Path::exists: true only when the metadata can be read
Exists(f) == f.kind \in {"file", "unreadable"}

\* std::fs::read succeeds
ReadOk(f) == f.kind = "file"

\* ----------------------------------------------------------------- digest
HexDigits == <<"0", "1", "2", "3", "4", "5", "6", "7",
               "8", "9", "a", "b", "c", "d", "e", "f">>

RECURSIVE Weigh(_, _)
Weigh(d, w) == IF d = <<>> THEN 0 ELSE Head(d) * w + Weigh(Tail(d), 3 * w)

\* md5::compute: a fingerprint of the contents, here two nibbles that
\* differ for any two contents within the bounds
Md5(contents) == <<(10 + Len(contents)) % 16, Weigh(contents, 1) % 16>>

\* format!("{digest:x}")
LowerHex(digest) == [i \in 1..Len(digest) |-> HexDigits[digest[i] + 1]]

\* ----------------------------------------------------------------- status
\* transaction.rs:65-69
StatusOf(digest_str, hash) ==
    IF digest_str = hash THEN "Present" ELSE "OutOfDate"

\* FileOperation::process, the closure applied to one manifest file
ProcessFile(file, f) ==
    IF ~Exists(f)
    THEN Val([patch_file |-> file, size |-> 0, status |-> "Missing"])
    ELSE IF ReadOk(f)
    THEN IF Len(f.data) > I64Max
         THEN Panic
         ELSE Val([patch_file |-> file,
                   size |-> Len(f.data),
                   status |-> StatusOf(LowerHex(Md5(f.data)), file.hash)])
    ELSE Panic

\* FileOperation::process: one operation per file, in manifest order; a
\* panic of the closure aborts the whole call
Process(files, d) ==
    LET each == [i \in 1..Len(files) |-> ProcessFile(files[i], d[files[i].path])]
    IN IF \E i \in 1..Len(files) : ~each[i].ok
       THEN Panic
       ELSE Val([i \in 1..Len(files) |-> each[i].v])

\* -------------------------------------------------------------- selectors
IsPresent(op) == op.status = "Present"
IsOutOfDate(op) == op.status = "OutOfDate"
IsMissing(op) == op.status = "Missing"
NotPresent(op) == op.status # "Present"

UpToDate(ops) == SelectSeq(ops, IsPresent)
OutdatedIncludesMissing(ops) == SelectSeq(ops, NotPresent)

Outdated(ops) == SelectSeq(ops, IsOutOfDate)
Missing(ops) == SelectSeq(ops, IsMissing)

PendingEveryOperation(ops) == ops

\* Transaction::pending
Pending(ops) == SelectSeq(ops, NotPresent)

PendingCount(ops) == Len(SelectSeq(ops, NotPresent))
HasPendingOperations(ops) == PendingCount(ops) > 0

DeclaredSizes(ops) == [i \in 1..Len(ops) |-> ops[i].patch_file.size]

\* Transaction::total_download_size: the sum, then the assert
TotalDownloadSize(ops, bld) ==
    LET total == SumI64(DeclaredSizes(SelectSeq(ops, NotPresent)), bld)
    IN IF total.ok /\ total.v >= 0 THEN total ELSE Panic

\* Transaction::disk_space_change
DiskSpaceChange(ops, bld) ==
    LET p == SelectSeq(ops, NotPresent)
        diff == [i \in 1..Len(p) |-> ArithI64(p[i].patch_file.size - p[i].size, bld)]
    IN IF \E i \in 1..Len(p) : ~diff[i].ok
       THEN Panic
       ELSE SumI64([i \in 1..Len(p) |-> diff[i].v], bld)

FileReportOf(op) ==
    [path |-> op.patch_file.path,
     current_size |-> IF IsMissing(op) THEN <<>> ELSE <<op.size>>,
     new_size |-> op.patch_file.size]

ReportList(ops) == [i \in 1..Len(ops) |-> FileReportOf(ops[i])]

\* Transaction::generate_report
GenerateReportOf(ops, bld) ==
    LET total == TotalDownloadSize(ops, bld)
        change == DiskSpaceChange(ops, bld)
    IN IF ~total.ok \/ ~change.ok
       THEN Panic
       ELSE Val([up_to_date_files |-> ReportList(UpToDate(ops)),
                 outdated_files |-> ReportList(Outdated(ops)),
                 missing_files |-> ReportList(Missing(ops)),
                 total_download_size |-> AsU64(total.v),
                 disk_space_change |-> change.v])


\* ------------------------------------------------------------- provider
\* PatchFile::get_url: the URL of the requested provider, else the URL of
\* the "none" provider, else nothing.  urls is the set of provider keys
\* the file has a URL for; the result is the key whose URL is used.
NoUrl == "<no url>"

get_url(file, prov) ==
    IF prov \in file.urls THEN prov
    ELSE IF "none" \in file.urls THEN "none"
    ELSE NoUrl

\* ------------------------------------------------------------------ state
VARIABLES
    manifest,               \* Manifest.files
    provider,               \* the provider download is called with
    build,                  \* "debug": overflow checks on, "release": off
    disk,                   \* path -> entry of the local tree
    disk0,                  \* the tree as Transaction::new found it
    pc,                     \* position of the program
    fault,                  \* the panic that ended the run, "" if none
    operations,             \* Transaction.operations
    report,                 \* what generate_report returned, <<>> before
    idx,                    \* download: enumerate() index in pending()
    downloaded,             \* download: bytes of the file in flight
    total_size_downloaded,  \* download: bytes of the whole batch
    total_download_size,    \* download: total_download_size() at entry
    result,                 \* what download returned, "" while running
    events,                 \* what the run did to the outside, in order
    rerun,                  \* operations of a Transaction built afterwards
    arg,                    \* the input of a function called on its own
    out                     \* what that function returned, <<>> before

vars == <<manifest, provider, build, disk, disk0, pc, fault, operations,
          report, idx, downloaded, total_size_downloaded,
          total_download_size, result, events, rerun, arg, out>>

PathNames == <<"a.bin", "dir/b.bin", "c.bin", "d.bin", "e.bin">>

\* the hash the manifest declares for the contents <<1>>, and the same
\* digest written in upper case
GoodHash == LowerHex(Md5(<<1>>))
UpperHash == <<"B", "1">>

Case(hash, size, urls, local) ==
    [hash |-> hash, size |-> size, urls |-> urls, local |-> local]

\* manifest files and their local copies a download run starts from
DownloadCases ==
    { Case(GoodHash, 1, {"cloudflare", "none"}, l) :
        l \in { Absent, File(<<1>>), File(<<2, 2>>) } }
    \cup { Case(GoodHash, 0, {"none"}, Absent),
           Case(GoodHash, 2, {"digitalocean"}, Absent),
           Case(GoodHash, 0 - 1, {"cloudflare"}, Absent) }

\* manifest files and their local copies a report is generated from
ReportCases ==
    { Case(hl[1], s, {"none"}, hl[2]) :
        hl \in { <<GoodHash, Absent>>, <<GoodHash, File(<<1>>)>>,
                 <<UpperHash, File(<<1>>)>>, <<GoodHash, File(<<2, 2>>)>>,
                 <<GoodHash, Unreadable(<<1>>)>>, <<GoodHash, NoAccess(<<1>>)>> },
        s \in { 0 - 1, 1, I64Max } }

InitWith(cases, maxFiles, builds, providers) ==
    /\ \E n \in 1..maxFiles : \E c \in [1..n -> cases] :
          /\ manifest = [i \in 1..n |->
                [path |-> PathNames[i], hash |-> c[i].hash,
                 size |-> c[i].size, urls |-> c[i].urls]]
          /\ disk = [p \in {PathNames[i] : i \in 1..n} |->
                c[CHOOSE i \in 1..n : PathNames[i] = p].local]
    /\ provider \in providers
    /\ build \in builds
    /\ disk0 = disk
    /\ pc = "start"
    /\ fault = ""
    /\ operations = <<>>
    /\ report = <<>>
    /\ idx = 0
    /\ downloaded = 0
    /\ total_size_downloaded = 0
    /\ total_download_size = 0
    /\ result = ""
    /\ events = <<>>
    /\ rerun = <<>>
    /\ arg = <<>>
    /\ out = <<>>

Init == InitWith(DownloadCases, MaxFiles, {"release"}, {"cloudflare"})

InitReport == InitWith(ReportCases, MaxReportFiles, {"debug", "release"}, {"none"})

dl == <<idx, downloaded, total_size_downloaded, total_download_size, result, events>>

\* --------------------------------------------------------- reconciliation
\* Transaction::new
New ==
    /\ pc = "start"
    /\ LET r == Process(manifest, disk)
       IN /\ operations' = r.v
          /\ pc' = IF r.ok THEN "ready" ELSE "panicked"
          /\ fault' = IF r.ok THEN "" ELSE "process"
    /\ disk0' = disk
    /\ UNCHANGED <<arg, out, manifest, provider, build, disk, report, dl, rerun>>

\* Transaction::generate_report on the transaction just built
GenerateReport ==
    /\ pc = "ready"
    /\ LET r == GenerateReportOf(operations, build)
       IN /\ report' = IF r.ok THEN <<r.v>> ELSE <<>>
          /\ pc' = IF r.ok THEN "reported" ELSE "panicked"
          /\ fault' = IF r.ok THEN "" ELSE "generate_report"
    /\ UNCHANGED <<arg, out, manifest, provider, build, disk, disk0, operations, dl, rerun>>

NextReport == New \/ GenerateReport

SpecReport == InitReport /\ [][NextReport]_vars


\* --------------------------------------------------------------- download
\* What the run does to the outside world, in the order it does it.
EvGet(path) == [type |-> "get", path |-> path]
EvSkip(path) == [type |-> "skip", path |-> path]
EvCreate(path) == [type |-> "create", path |-> path]
EvChunk(path, b) == [type |-> "chunk", path |-> path, byte |-> b]
EvWrite(path, b) == [type |-> "write", path |-> path, byte |-> b]
EvCall(path, p, ok) == [type |-> "call", path |-> path, progress |-> p, ok |-> ok]
EvEnd(path) == [type |-> "end", path |-> path]

IsChunk(e) == e.type = "chunk"
ChunksRead == Len(SelectSeq(events, IsChunk))

\* the operation of the current loop iteration
CurOp == Pending(operations)[idx + 1]
CurPath == CurOp.patch_file.path

Return(r) ==
    /\ result' = r
    /\ pc' = "returned"

\* entry of download, up to the head of the for loop
DownloadStart ==
    /\ pc = "ready"
    /\ LET t == TotalDownloadSize(operations, build)
       IN /\ total_download_size' = t.v
          /\ pc' = IF t.ok THEN "loop" ELSE "panicked"
          /\ fault' = IF t.ok THEN "" ELSE "total_download_size"
    /\ idx' = 0
    /\ total_size_downloaded' = 0
    /\ UNCHANGED <<arg, out, manifest, provider, build, disk, disk0, operations, report,
                   downloaded, result, events, rerun>>

\* create_dir_all(dir).await?
CreateDirAll ==
    /\ pc = "loop"
    /\ idx < Len(Pending(operations))
    /\ \E ok \in BOOLEAN :
          IF ok THEN pc' = "url" /\ result' = result
                ELSE Return("Err: create_dir_all")
    /\ UNCHANGED <<arg, out, manifest, provider, build, disk, disk0, fault, operations,
                   report, idx, downloaded, total_size_downloaded,
                   total_download_size, events, rerun>>

\* get_url(&provider).ok_or_else(..)?
GetUrl ==
    /\ pc = "url"
    /\ IF get_url(CurOp.patch_file, provider) = NoUrl
       THEN Return("Err: No URL found for provider")
       ELSE pc' = "send" /\ result' = result
    /\ UNCHANGED <<arg, out, manifest, provider, build, disk, disk0, fault, operations,
                   report, idx, downloaded, total_size_downloaded,
                   total_download_size, events, rerun>>

\* http_client.get(url).send().await? fails: the request cannot be sent
SendError ==
    /\ pc = "send"
    /\ events' = Append(events, EvGet(CurPath))
    /\ Return("Err: send")
    /\ UNCHANGED <<arg, out, manifest, provider, build, disk, disk0, fault, operations,
                   report, idx, downloaded, total_size_downloaded,
                   total_download_size, rerun>>

HttpFailureAfterCreate ==
    /\ pc = "send"
    /\ events' = events \o <<EvGet(CurPath), EvSkip(CurPath)>>
    /\ disk' = [disk EXCEPT ![CurPath] = File(<<>>)]
    /\ idx' = idx + 1
    /\ pc' = "loop"
    /\ UNCHANGED <<arg, out, manifest, provider, build, disk0, fault, operations,
                   report, downloaded, total_size_downloaded,
                   total_download_size, result, rerun>>

\* the response has a non-success status: eprintln!, continue
HttpFailure ==
    /\ pc = "send"
    /\ events' = events \o <<EvGet(CurPath), EvSkip(CurPath)>>
    /\ idx' = idx + 1
    /\ pc' = "loop"
    /\ UNCHANGED <<arg, out, manifest, provider, build, disk, disk0, fault, operations,
                   report, downloaded, total_size_downloaded,
                   total_download_size, result, rerun>>

\* the response has a success status
HttpSuccess ==
    /\ pc = "send"
    /\ events' = Append(events, EvGet(CurPath))
    /\ pc' = "create"
    /\ UNCHANGED <<arg, out, manifest, provider, build, disk, disk0, fault, operations,
                   report, idx, downloaded, total_size_downloaded,
                   total_download_size, result, rerun>>

\* File::create(dest_path).await? fails
FileCreateError ==
    /\ pc = "create"
    /\ Return("Err: File::create")
    /\ UNCHANGED <<arg, out, manifest, provider, build, disk, disk0, fault, operations,
                   report, idx, downloaded, total_size_downloaded,
                   total_download_size, events, rerun>>

FileCreateKeepsContent ==
    /\ pc = "create"
    /\ disk[CurPath].kind \in {"absent", "file"}
    /\ disk' = [disk EXCEPT ![CurPath] = File(disk[CurPath].data)]
    /\ events' = Append(events, EvCreate(CurPath))
    /\ downloaded' = 0
    /\ pc' = "stream"
    /\ UNCHANGED <<arg, out, manifest, provider, build, disk0, fault, operations, report,
                   idx, total_size_downloaded, total_download_size, result, rerun>>

\* File::create(dest_path): the file is created, or truncated if it exists
FileCreate ==
    /\ pc = "create"
    /\ disk[CurPath].kind \in {"absent", "file"}
    /\ disk' = [disk EXCEPT ![CurPath] = File(<<>>)]
    /\ events' = Append(events, EvCreate(CurPath))
    /\ downloaded' = 0
    /\ pc' = "stream"
    /\ UNCHANGED <<arg, out, manifest, provider, build, disk0, fault, operations, report,
                   idx, total_size_downloaded, total_download_size, result, rerun>>

StreamEndMarksPresent ==
    /\ pc = "stream"
    /\ events' = Append(events, EvEnd(CurPath))
    /\ operations' = [i \in 1..Len(operations) |->
          IF operations[i].patch_file.path = CurPath
          THEN [operations[i] EXCEPT !.status = "Present"]
          ELSE operations[i]]
    /\ pc' = "loop"
    /\ UNCHANGED <<arg, out, manifest, provider, build, disk, disk0, fault,
                   report, idx, downloaded, total_size_downloaded,
                   total_download_size, result, rerun>>

\* stream.next() is None: the file is done, next iteration
StreamEnd ==
    /\ pc = "stream"
    /\ events' = Append(events, EvEnd(CurPath))
    /\ idx' = idx + 1
    /\ pc' = "loop"
    /\ UNCHANGED <<arg, out, manifest, provider, build, disk, disk0, fault, operations,
                   report, downloaded, total_size_downloaded,
                   total_download_size, result, rerun>>

\* stream.next() is Some(Err(e)): chunk.map_err(..)?
ChunkError ==
    /\ pc = "stream"
    /\ Return("Err: chunk")
    /\ UNCHANGED <<arg, out, manifest, provider, build, disk, disk0, fault, operations,
                   report, idx, downloaded, total_size_downloaded,
                   total_download_size, events, rerun>>

\* a chunk arrives and file.write_all(&chunk) fails
WriteError ==
    /\ pc = "stream"
    /\ ChunksRead < MaxChunks
    /\ \E b \in Bytes : events' = Append(events, EvChunk(CurPath, b))
    /\ Return("Err: write_all")
    /\ UNCHANGED <<arg, out, manifest, provider, build, disk, disk0, fault, operations,
                   report, idx, downloaded, total_size_downloaded,
                   total_download_size, rerun>>

ProgressOfZeroBased(op, i, ops, down, total_down, total_size) ==
    [current |-> down,
     file_index |-> i,
     total_files |-> PendingCount(ops),
     file_size |-> op.patch_file.size,
     filename |-> op.patch_file.path,
     total_size_downloaded |-> total_down,
     total_amount_left |-> SaturatingSub(AsU64(total_size), total_down),
     total_download_size |-> total_size]

ProgressOfWrappingSub(op, i, ops, down, total_down, total_size) ==
    [current |-> down,
     file_index |-> i + 1,
     total_files |-> PendingCount(ops),
     file_size |-> op.patch_file.size,
     filename |-> op.patch_file.path,
     total_size_downloaded |-> total_down,
     total_amount_left |-> AsU64(AsU64(total_size) - total_down),
     total_download_size |-> total_size]

\* the Progress built after a chunk (speed, elapsed and the ETA apart)
ProgressOf(op, i, ops, down, total_down, total_size) ==
    [current |-> down,
     file_index |-> i + 1,
     total_files |-> PendingCount(ops),
     file_size |-> op.patch_file.size,
     filename |-> op.patch_file.path,
     total_size_downloaded |-> total_down,
     total_amount_left |-> SaturatingSub(AsU64(total_size), total_down),
     total_download_size |-> total_size]

\* a chunk arrives, file.write_all(&chunk) writes it and the counters
\* advance
ChunkWritten(b) ==
    /\ pc = "stream"
    /\ ChunksRead < MaxChunks
    /\ disk' = [disk EXCEPT ![CurPath] = File(Append(disk[CurPath].data, b))]
    /\ downloaded' = downloaded + 1
    /\ total_size_downloaded' = total_size_downloaded + 1
    /\ UNCHANGED <<arg, out, manifest, provider, build, disk0, operations, report, idx,
                   total_download_size, rerun>>

\* the Progress of the chunk just written is handed to progress_handler,
\* which answers ok
Called(b, ok) ==
    events' = events \o
        <<EvChunk(CurPath, b), EvWrite(CurPath, b),
          EvCall(CurPath,
                 ProgressOf(CurOp, idx, operations, downloaded + 1,
                            total_size_downloaded + 1, total_download_size),
                 ok)>>

\* building the Progress panics: file_size.try_into().unwrap() on a
\* negative declared size
ChunkPanic ==
    /\ pc = "stream"
    /\ CurOp.patch_file.size < 0
    /\ \E b \in Bytes :
          /\ ChunkWritten(b)
          /\ events' = events \o <<EvChunk(CurPath, b), EvWrite(CurPath, b)>>
    /\ pc' = "panicked"
    /\ fault' = "file_size.try_into"
    /\ result' = result

\* progress_handler(&progress)? returned Ok: next chunk
ChunkOk ==
    /\ pc = "stream"
    /\ CurOp.patch_file.size >= 0
    /\ \E b \in Bytes : ChunkWritten(b) /\ Called(b, TRUE)
    /\ pc' = "stream"
    /\ UNCHANGED <<fault, result>>

HandlerErrorIgnored ==
    /\ pc = "stream"
    /\ CurOp.patch_file.size >= 0
    /\ \E b \in Bytes : ChunkWritten(b) /\ Called(b, FALSE)
    /\ pc' = "stream"
    /\ UNCHANGED <<fault, result>>

HandlerErrorCleansUp ==
    /\ pc = "stream"
    /\ CurOp.patch_file.size >= 0
    /\ ChunksRead < MaxChunks
    /\ \E b \in Bytes : Called(b, FALSE)
    /\ disk' = [disk EXCEPT ![CurPath] = disk0[CurPath]]
    /\ downloaded' = downloaded + 1
    /\ total_size_downloaded' = total_size_downloaded + 1
    /\ Return("Err: progress_handler")
    /\ UNCHANGED <<arg, out, manifest, provider, build, disk0, fault, operations,
                   report, idx, total_download_size, rerun>>

\* progress_handler(&progress)? returned Err: download returns it
HandlerError ==
    /\ pc = "stream"
    /\ CurOp.patch_file.size >= 0
    /\ \E b \in Bytes : ChunkWritten(b) /\ Called(b, FALSE)
    /\ Return("Err: progress_handler")
    /\ UNCHANGED fault

\* the for loop is over: Ok(())
DownloadOk ==
    /\ pc = "loop"
    /\ idx = Len(Pending(operations))
    /\ Return("Ok")
    /\ UNCHANGED <<arg, out, manifest, provider, build, disk, disk0, fault, operations,
                   report, idx, downloaded, total_size_downloaded,
                   total_download_size, events, rerun>>

\* a second Transaction::new of the same manifest and base path, after
\* download has returned
Rerun ==
    /\ pc = "returned"
    /\ rerun' = <<Process(manifest, disk)>>
    /\ pc' = "rerun"
    /\ UNCHANGED <<arg, out, manifest, provider, build, disk, disk0, fault, operations,
                   report, dl>>

Next ==
    \/ New
    \/ DownloadStart
    \/ CreateDirAll
    \/ GetUrl
    \/ SendError
    \/ HttpFailure
    \/ HttpSuccess
    \/ FileCreateError
    \/ FileCreate
    \/ StreamEnd
    \/ ChunkError
    \/ WriteError
    \/ ChunkPanic
    \/ ChunkOk
    \/ HandlerError
    \/ DownloadOk
    \/ Rerun

Spec == Init /\ [][Next]_vars


\* ================================================================= claims
\* helpers of the statements below
OpOf(ops, path) == ops[CHOOSE i \in 1..Len(ops) : ops[i].patch_file.path = path]

Built == pc \notin {"start", "panicked"} \/ fault \notin {"", "process"}

PendingPaths == {Pending(operations)[i].patch_file.path :
                    i \in 1..Len(Pending(operations))}

PositionOf(path) ==
    CHOOSE i \in 1..Len(Pending(operations)) :
        Pending(operations)[i].patch_file.path = path

EventsOf(type) == {k \in 1..Len(events) : events[k].type = type}

Happened(type, path) ==
    \E k \in 1..Len(events) : events[k].type = type /\ events[k].path = path

\* the bytes written to path by the run, in order
Delivered(path) ==
    LET OfPath(e) == e.type = "write" /\ e.path = path
        w == SelectSeq(events, OfPath)
    IN [i \in 1..Len(w) |-> w[i].byte]

Returned == pc \in {"returned", "rerun"}

\* C1: every operation of a transaction is Missing with local size 0
\* exactly when nothing is at base_path/path, Present exactly when the file
\* is there and the lower-case hex MD5 of its bytes is the declared hash,
\* OutOfDate exactly when it is there and the digest differs, and the local
\* size of a file that is there is its length.
C1_Classification ==
    Built =>
        \A i \in 1..Len(operations) :
            LET op == operations[i]
                f == disk0[op.patch_file.path]
                same == LowerHex(Md5(f.data)) = op.patch_file.hash
            IN /\ (op.status = "Missing" /\ op.size = 0) <=> ~OnDisk(f)
               /\ op.status = "Present" <=> (OnDisk(f) /\ same)
               /\ op.status = "OutOfDate" <=> (OnDisk(f) /\ ~same)
               /\ OnDisk(f) => op.size = Len(f.data)

\* C2: download never requests, creates, truncates or writes a file whose
\* operation is Present: every event of the run is about an operation that
\* is OutOfDate or Missing, and the Present files keep their content.
C2_PresentUntouched ==
    /\ \A k \in 1..Len(events) :
          OpOf(operations, events[k].path).status \in {"OutOfDate", "Missing"}
    /\ \A i \in 1..Len(operations) :
          operations[i].status = "Present" =>
              disk[operations[i].patch_file.path]
                  = disk0[operations[i].patch_file.path]

C2_Witness ==
    /\ result = "Ok"
    /\ \E i \in 1..Len(operations) : operations[i].status = "Present"
    /\ EventsOf("write") # {}

\* C3: a non-success status for a pending file does not end download: the
\* file's content stays as it was, the loop is past that file, and a later
\* reconciliation still finds the file pending.
C3_HttpFailureSkips ==
    \A k \in EventsOf("skip") :
        LET path == events[k].path
        IN /\ disk[path] = disk0[path]
           /\ ~Happened("create", path)
           /\ PositionOf(path) <= idx
           /\ rerun # <<>> =>
                 /\ rerun[1].ok
                 /\ OpOf(rerun[1].v, path).status \in {"OutOfDate", "Missing"}

C3_Witness ==
    /\ pc = "rerun"
    /\ \E k \in EventsOf("skip") : \E j \in EventsOf("write") :
          k < j /\ events[k].path # events[j].path

\* C4: when a pending file has no URL for the provider nor for "none",
\* download fails for that file with the configuration error and every
\* other pending file of the batch is still requested.
C4_OthersStillFetched ==
    result = "Err: No URL found for provider" =>
        \A path \in PendingPaths :
            get_url(OpOf(operations, path).patch_file, provider) # NoUrl
                => Happened("get", path)

\* C5: a transport fault of one file (the request cannot be sent, the body
\* stream yields an error) is skipped over: download does not return it as
\* its error.
C5_TransportFaultSkipped ==
    result \notin {"Err: send", "Err: chunk"}

\* C6: a progress handler error is returned at once: the failing callback
\* is the last thing the run does (no chunk read or written, no callback,
\* no request after it) and download has returned that error.
C6_HandlerErrorAborts ==
    \A k \in EventsOf("call") :
        ~events[k].ok =>
            /\ k = Len(events)
            /\ Returned
            /\ result = "Err: progress_handler"

C6_Witness ==
    /\ result = "Err: progress_handler"
    /\ Cardinality(EventsOf("call")) = 2
    /\ idx + 1 < Len(Pending(operations))

\* C7 as stated: after download returned Ok having fetched a pending file,
\* a new Transaction classifies that file as Present.
C7_RoundTrip ==
    (pc = "rerun" /\ result = "Ok") =>
        \A path \in PendingPaths :
            Happened("end", path) =>
                /\ rerun[1].ok
                /\ OpOf(rerun[1].v, path).status = "Present"

\* C7 amended: after download returned Ok having fetched a pending file, a
\* new Transaction classifies that file as Present when the lower-case hex
\* MD5 of the bytes the server sent is the declared hash, and as OutOfDate
\* otherwise.
C7_RoundTripOfDeliveredBytes ==
    (pc = "rerun" /\ result = "Ok") =>
        \A path \in PendingPaths :
            Happened("end", path) =>
                /\ rerun[1].ok
                /\ OpOf(rerun[1].v, path).status =
                      IF LowerHex(Md5(Delivered(path)))
                            = OpOf(operations, path).patch_file.hash
                      THEN "Present" ELSE "OutOfDate"

C7_Witness ==
    /\ pc = "rerun"
    /\ result = "Ok"
    /\ \E path \in PendingPaths :
          /\ Happened("end", path)
          /\ disk0[path] # Absent
          /\ rerun[1].ok
          /\ OpOf(rerun[1].v, path).status = "Present"

\* C8: a file that is under the base path but cannot be read or inspected
\* always aborts reconciliation: Transaction::new panics and the file gets
\* no status.
C8_UnreadableAborts ==
    (pc # "start" /\ \E i \in 1..Len(manifest) :
                        disk0[manifest[i].path].kind \in {"unreadable", "noaccess"})
        => fault = "process"

\* C9: total_download_size is the exact sum of the declared sizes of the
\* operations that are not Present, it is >= 0 when no declared size is
\* negative, and the report publishes that sum.
C9_TotalDownloadSize ==
    LET sizes == DeclaredSizes(Pending(operations))
        exact == ExactSum(sizes)
        acted == pc = "reported" \/ fault = "generate_report"
    IN acted =>
          /\ pc = "reported" => report[1].total_download_size = exact
          /\ (\A i \in 1..Len(manifest) : manifest[i].size >= 0) =>
                /\ pc = "reported"
                /\ exact >= 0

\* C10: disk_space_change is the sum of (declared size - local size) over
\* the operations that are not Present.
C10_DiskSpaceChange ==
    LET p == Pending(operations)
        exact == ExactSum([i \in 1..Len(p) |-> p[i].patch_file.size - p[i].size])
    IN pc = "reported" => report[1].disk_space_change = exact


\* C11: the missing-URL error comes before any network activity of the
\* run: when download returns it, no GET was issued and no destination
\* file was created or written.
C11_NoUrlBeforeAnyRequest ==
    result = "Err: No URL found for provider" =>
        /\ EventsOf("get") = {}
        /\ EventsOf("create") = {}
        /\ EventsOf("write") = {}

\* the 1-based rank of path among the operations that are not Present,
\* counted in manifest declaration order
RankOf(path) ==
    LET i == CHOOSE j \in 1..Len(manifest) : manifest[j].path = path
    IN Cardinality({j \in 1..i : operations[j].status # "Present"})

\* C12: the progress callbacks of one download are ordered: file_index is
\* the 1-based rank of the file among the pending files in manifest order
\* and never decreases, total_files is the pending count and
\* 1 <= file_index <= total_files, the callbacks of one file are contiguous,
\* and within one file the byte count never decreases.
C12_CallbacksOrdered ==
    LET calls == EventsOf("call")
        pending == Cardinality({j \in 1..Len(operations) :
                                   operations[j].status # "Present"})
    IN /\ \A k \in calls :
             LET p == events[k].progress
             IN /\ p.file_index = RankOf(events[k].path)
                /\ p.total_files = pending
                /\ 1 <= p.file_index /\ p.file_index <= p.total_files
       /\ \A k, l \in calls :
             k < l =>
                /\ events[k].progress.file_index
                      <= events[l].progress.file_index
                /\ events[k].path = events[l].path =>
                      /\ events[k].progress.current
                            <= events[l].progress.current
                      /\ \A m \in calls :
                            (k < m /\ m < l) => events[m].path = events[k].path

C12_Witness ==
    \E k, l, m \in EventsOf("call") :
        /\ k < l /\ l < m
        /\ events[k].path = events[l].path
        /\ events[l].path # events[m].path
        /\ events[m].progress.file_index = 2

InFlightAbort == {"Err: progress_handler", "Err: chunk", "Err: write_all"}

\* C13: when download is aborted with a file in flight, that file holds
\* exactly the chunks written so far, in order (no cleanup, nothing of its
\* earlier content), and the files completed before keep what was
\* downloaded.
C13_PartialFileLeft ==
    result \in InFlightAbort =>
        /\ disk[CurPath] = File(Delivered(CurPath))
        /\ \A path \in PendingPaths :
              Happened("end", path) => disk[path] = File(Delivered(path))

C13_Witness ==
    /\ result = "Err: progress_handler"
    /\ disk0[CurPath] = File(<<2, 2>>)
    /\ Delivered(CurPath) = <<1, 2>>
    /\ \E path \in PendingPaths :
          Happened("end", path) /\ Len(Delivered(path)) = 1

\* C16: in every Progress, total_size_downloaded is the sum of the lengths
\* of the chunks received so far in the batch and total_amount_left is
\* max(0, total_download_size - total_size_downloaded): never negative,
\* never wrapped, also when more arrives than the manifest declares.
C16_AmountLeftSaturates ==
    \A k \in EventsOf("call") :
        LET p == events[k].progress
            received == Cardinality({j \in 1..k : events[j].type = "chunk"})
        IN /\ p.total_size_downloaded = received
           /\ p.total_download_size = total_download_size
           /\ p.total_amount_left =
                 IF total_download_size > received
                 THEN total_download_size - received ELSE 0

C16_Witness ==
    \E k \in EventsOf("call") :
        /\ events[k].progress.total_size_downloaded
              > events[k].progress.total_download_size
        /\ events[k].progress.total_amount_left = 0

\* C20: download never changes the Transaction: its operations (hence
\* pending_count, has_pending_operations and generate_report) are those
\* Transaction::new built, whatever download did, and after a successful
\* download the fetched files are still pending in it.
C20_TransactionUnchanged ==
    Built =>
        /\ operations = Process(manifest, disk0).v
        /\ \A k \in 1..Len(events) :
              events[k].type = "end" =>
                 /\ OpOf(operations, events[k].path).status # "Present"
                 /\ HasPendingOperations(operations)

C20_Witness ==
    /\ pc = "rerun"
    /\ result = "Ok"
    /\ \E path \in PendingPaths :
          /\ Happened("end", path)
          /\ rerun[1].ok
          /\ OpOf(rerun[1].v, path).status = "Present"
          /\ OpOf(operations, path).status = "Missing"
          /\ HasPendingOperations(operations)


\* the manifest's paths whose operation has the status, in manifest order
PathsWithStatus(status) ==
    LET Has(file) == OpOf(operations, file.path).status = status
        files == SelectSeq(manifest, Has)
    IN [i \in 1..Len(files) |-> files[i].path]

PathsOf(list) == [i \in 1..Len(list) |-> list[i].path]

\* C19: the report's up_to_date, outdated and missing lists partition the
\* manifest's files by status, each in manifest declaration order;
\* pending_count is the length of outdated plus the length of missing, and
\* has_pending_operations holds exactly when some operation is not Present.
C19_ReportPartitions ==
    pc = "reported" =>
        LET r == report[1]
            all == PathsOf(r.up_to_date_files) \o PathsOf(r.outdated_files)
                      \o PathsOf(r.missing_files)
        IN /\ PathsOf(r.up_to_date_files) = PathsWithStatus("Present")
           /\ PathsOf(r.outdated_files) = PathsWithStatus("OutOfDate")
           /\ PathsOf(r.missing_files) = PathsWithStatus("Missing")
           /\ \A i \in 1..Len(manifest) :
                 Cardinality({j \in 1..Len(all) : all[j] = manifest[i].path}) = 1
           /\ Len(all) = Len(manifest)
           /\ PendingCount(operations)
                 = Len(r.outdated_files) + Len(r.missing_files)
           /\ HasPendingOperations(operations)
                 <=> \E i \in 1..Len(operations) :
                        operations[i].status # "Present"

C19_Witness ==
    /\ pc = "reported"
    /\ Len(report[1].up_to_date_files) = 1
    /\ Len(report[1].outdated_files) = 1
    /\ Len(report[1].missing_files) = 1
    /\ operations[1].status = "Missing"
    /\ operations[3].status = "Present"
    /\ PendingCount(operations) = 2


\* ================================================= functions called alone
\* eta_to_human_readable, Location::parse, the speed and ETA arithmetic of
\* download and Progress::create_progress_bar are functions of their
\* arguments: SpecFn draws an argument, and the call leaves the value in out.

EtaWindow == 3
MaxAmount == 3
PROGRESS_BAR_WIDTH == 20

\* ------------------------------------------------------------ formatting
DecDigits == <<"0", "1", "2", "3", "4", "5", "6", "7", "8", "9">>

\* "{}" of an unsigned integer
RECURSIVE Display(_)
Display(n) ==
    IF n < 10 THEN <<DecDigits[n + 1]>>
    ELSE Display(n \div 10) \o <<DecDigits[(n % 10) + 1]>>

\* "{:02}" of an unsigned integer
Pad02(n) == IF n < 10 THEN <<"0">> \o Display(n) ELSE Display(n)

\* eta_to_human_readable with the minutes taken from the whole duration
eta_minutes_not_reduced(halves) ==
    IF halves <= 0 \/ halves > 2 * 86400
    THEN <<"-", "-">>
    ELSE LET hours == halves \div (2 * 3600)
             minutes == halves \div (2 * 60)
             secs == (halves % (2 * 60)) \div 2
         IN IF hours > 0
            THEN Display(hours) \o <<"h">> \o Pad02(minutes) \o <<"m">>
                    \o Pad02(secs) \o <<"s">>
            ELSE IF minutes > 0
            THEN Display(minutes) \o <<"m">> \o Pad02(secs) \o <<"s">>
            ELSE Display(secs) \o <<"s">>

\* eta_to_human_readable(seconds), the f64 seconds given in half seconds
\* (halves / 2), which floor, % and / of f64 treat exactly
eta_to_human_readable(halves) ==
    IF halves <= 0 \/ halves > 2 * 86400
    THEN <<"-", "-">>
    ELSE LET hours == halves \div (2 * 3600)
             minutes == (halves % (2 * 3600)) \div (2 * 60)
             secs == (halves % (2 * 60)) \div 2
         IN IF hours > 0
            THEN Display(hours) \o <<"h">> \o Pad02(minutes) \o <<"m">>
                    \o Pad02(secs) \o <<"s">>
            ELSE IF minutes > 0
            THEN Display(minutes) \o <<"m">> \o Pad02(secs) \o <<"s">>
            ELSE Display(secs) \o <<"s">>

\* the durations tried, in half seconds: around zero, the unit changes,
\* the documented examples and the one-day limit
EtaAnchors == {0, 30, 60, 61, 600, 3600, 3661, 36000, 86400, 90000}
EtaInputs ==
    { 2 * a + d : a \in EtaAnchors, d \in (0 - 2 * EtaWindow)..(2 * EtaWindow) }

\* -------------------------------------------------------- Location::parse
HttpUrl == <<"h", "t", "t", "p", ":", "/", "/", "h", "/", "m">>
HttpsUrl == <<"h", "t", "t", "p", "s", ":", "/", "/", "h">>
UpperUrl == <<"H", "T", "T", "P", ":", "/", "/", "h", "/", "m">>
BareIp == <<"1", "2", "7", ".", "0", ".", "0", ".", "1">>
Word == <<"n", "o", "t", "-", "a", "-", "u", "r", "l">>
UnixPath == <<"/", "n", "o", "/", "f", "i", "l", "e">>
WindowsPath == <<"C", ":", "/", "/", "n", "o", "/", "/", "f", ".", "t", "x", "t">>
FtpUrl == <<"f", "t", "p", ":", "/", "/", "h", "/", "m">>
Opaque == <<"m", "a", "i", "l", "t", "o", ":", "m">>
NoHost == <<"h", "t", "t", "p", ":", "/", "/">>

LocationStrings ==
    {HttpUrl, HttpsUrl, UpperUrl, BareIp, Word, UnixPath, WindowsPath,
     FtpUrl, Opaque, NoHost}

Letters == <<"a", "b", "c", "d", "e", "f", "g", "h", "i", "j", "k", "l", "m",
             "n", "o", "p", "q", "r", "s", "t", "u", "v", "w", "x", "y", "z">>
Capitals == <<"A", "B", "C", "D", "E", "F", "G", "H", "I", "J", "K", "L", "M",
              "N", "O", "P", "Q", "R", "S", "T", "U", "V", "W", "X", "Y", "Z">>
IsAlpha(c) == \E i \in 1..26 : c = Letters[i] \/ c = Capitals[i]
IsDigit(c) == \E i \in 1..10 : c = DecDigits[i]
AsciiLower(c) ==
    IF \E i \in 1..26 : c = Capitals[i]
    THEN Letters[CHOOSE i \in 1..26 : c = Capitals[i]]
    ELSE c

\* the index of the ':' that ends a scheme (alpha, then alpha, digit, '+',
\* '-' or '.'), 0 when the string does not start with a scheme
SchemeEnd(str) ==
    LET ends == {i \in 2..Len(str) :
                    /\ str[i] = ":"
                    /\ IsAlpha(str[1])
                    /\ \A j \in 2..(i - 1) :
                          IsAlpha(str[j]) \/ IsDigit(str[j])
                             \/ str[j] \in {"+", "-", "."}}
    IN IF ends = {} THEN 0
       ELSE CHOOSE i \in ends : \A j \in ends : i <= j

SpecialSchemes == {<<"h", "t", "t", "p">>, <<"h", "t", "t", "p", "s">>,
                   <<"f", "t", "p">>}

RECURSIVE SkipSlashes(_)
SkipSlashes(str) ==
    IF str # <<>> /\ str[1] \in {"/", "\\"} THEN SkipSlashes(Tail(str)) ELSE str

\* Url::parse without a base URL, as far as Location::parse looks at the
\* result: whether it parsed, the scheme, and cannot_be_a_base
UrlParse(str) ==
    LET e == SchemeEnd(str)
        scheme == [i \in 1..(e - 1) |-> AsciiLower(str[i])]
        rest == SubSeq(str, e + 1, Len(str))
        host == SkipSlashes(rest)
    IN IF e = 0
       THEN [ok |-> FALSE, v |-> "RelativeUrlWithoutBase"]
       ELSE IF scheme \in SpecialSchemes
       THEN IF host = <<>>
            THEN [ok |-> FALSE, v |-> "EmptyHost"]
            ELSE Val([scheme |-> scheme, cannot_be_a_base |-> FALSE])
       ELSE Val([scheme |-> scheme,
                 cannot_be_a_base |-> (rest = <<>> \/ rest[1] # "/")])

\* Location::parse(manifest_str), file being what the file system has at
\* the path the string names
location_parse(manifest_str, file) ==
    LET parsed_url == UrlParse(manifest_str)
        http == <<"h", "t", "t", "p">>
        https == <<"h", "t", "t", "p", "s">>
    IN IF parsed_url.ok /\ parsed_url.v.cannot_be_a_base
       THEN [ok |-> FALSE, v |-> "URL is incomplete"]
       ELSE IF parsed_url.ok /\ parsed_url.v.scheme \in {http, https}
       THEN Val([variant |-> "Url", of |-> manifest_str])
       ELSE IF Exists(file) /\ ReadOk(file)
       THEN Val([variant |-> "FilePath", of |-> manifest_str])
       ELSE [ok |-> FALSE, v |-> "Manifest location must be a valid URL or a readable file path"]

LocationFiles == {Absent, File(<<1>>), Unreadable(<<1>>), NoAccess(<<1>>)}

\* ------------------------------------------------------------ speed, ETA
\* an f64 that is a ratio of integers, or an infinity or a NaN
Ratio(n, d) == [kind |-> "finite", num |-> n, den |-> d]
Infinity == [kind |-> "inf", num |-> 1, den |-> 0]
NaN == [kind |-> "nan", num |-> 0, den |-> 0]

\* downloaded as f64 / start.elapsed().as_secs_f64()
SpeedOf(down, elapsed) ==
    IF elapsed > 0 THEN Ratio(down, elapsed)
    ELSE IF down > 0 THEN Infinity
    ELSE NaN

\* if speed > 0.0 { (total_amount_left as f64 / speed).min(86400.0) }
\* else { 0.0 }
ExpectedTimeLeft(left, speed) ==
    IF speed.kind = "inf" THEN Ratio(0, 1)
    ELSE IF speed.kind = "finite" /\ speed.num > 0
    THEN IF left * speed.den > 86400 * speed.num
         THEN Ratio(86400, 1)
         ELSE Ratio(left * speed.den, speed.num)
    ELSE Ratio(0, 1)

Elapsed == {0, 1, 2, 86400}

\* ---------------------------------------------------- create_progress_bar
Repeat(c, n) == [i \in 1..n |-> c]

\* (progress * PROGRESS_BAR_WIDTH as f64) as usize: the cast takes NaN to 0
\* and saturates, max saying that it gave usize::MAX
Filled(current, total) ==
    IF total > 0
    THEN [max |-> FALSE, n |-> (current * PROGRESS_BAR_WIDTH) \div total]
    ELSE IF current > 0 THEN [max |-> TRUE, n |-> 0]
    ELSE [max |-> FALSE, n |-> 0]

\* Progress::create_progress_bar(current, total): "-".repeat(filled) is
\* evaluated first, then PROGRESS_BAR_WIDTH - filled, which a build with
\* overflow checks refuses and another wraps to a length repeat refuses
create_progress_bar(current, total, bld) ==
    LET filled == Filled(current, total)
    IN IF filled.max
       THEN [ok |-> FALSE, v |-> "capacity overflow"]
       ELSE IF filled.n > PROGRESS_BAR_WIDTH
       THEN [ok |-> FALSE,
             v |-> IF bld = "debug" THEN "attempt to subtract with overflow"
                   ELSE "capacity overflow"]
       ELSE Val(<<"[">> \o Repeat("-", filled.n)
                   \o Repeat(" ", PROGRESS_BAR_WIDTH - filled.n) \o <<"]">>)

\* ------------------------------------------------------------- the calls
FnArgs ==
    [fn : {"eta_to_human_readable"}, seconds2 : EtaInputs]
    \cup [fn : {"Location::parse"}, manifest_str : LocationStrings,
          file : LocationFiles]
    \cup [fn : {"speed"}, downloaded : 0..MaxAmount, elapsed : Elapsed,
          total_amount_left : 0..MaxAmount]
    \cup [fn : {"create_progress_bar"}, current : 0..MaxAmount,
          total : 0..MaxAmount]

InitFn ==
    /\ arg \in {<<a>> : a \in FnArgs}
    /\ out = <<>>
    /\ build \in {"debug", "release"}
    /\ pc = "call"
    /\ manifest = <<>>
    /\ provider = "none"
    /\ disk = <<>>
    /\ disk0 = <<>>
    /\ fault = ""
    /\ operations = <<>>
    /\ report = <<>>
    /\ idx = 0
    /\ downloaded = 0
    /\ total_size_downloaded = 0
    /\ total_download_size = 0
    /\ result = ""
    /\ events = <<>>
    /\ rerun = <<>>

Returns(value) ==
    /\ out' = <<value>>
    /\ pc' = "called"
    /\ UNCHANGED <<arg, manifest, provider, build, disk, disk0, fault,
                   operations, report, dl, rerun>>

EtaToHumanReadable ==
    /\ pc = "call"
    /\ arg[1].fn = "eta_to_human_readable"
    /\ Returns(eta_to_human_readable(arg[1].seconds2))

LocationParse ==
    /\ pc = "call"
    /\ arg[1].fn = "Location::parse"
    /\ Returns(location_parse(arg[1].manifest_str, arg[1].file))

SpeedAndEta ==
    /\ pc = "call"
    /\ arg[1].fn = "speed"
    /\ LET speed == SpeedOf(arg[1].downloaded, arg[1].elapsed)
       IN Returns([speed |-> speed,
                   expected_time_left |->
                      ExpectedTimeLeft(arg[1].total_amount_left, speed)])

CreateProgressBar ==
    /\ pc = "call"
    /\ arg[1].fn = "create_progress_bar"
    /\ Returns(create_progress_bar(arg[1].current, arg[1].total, build))

NextFn == EtaToHumanReadable \/ LocationParse \/ SpeedAndEta \/ CreateProgressBar

SpecFn == InitFn /\ [][NextFn]_vars


\* ------------------------------------------------ claims on the functions
Called_(fn) == pc = "called" /\ arg[1].fn = fn

IndexOf(str, c) ==
    IF \E i \in 1..Len(str) : str[i] = c
    THEN CHOOSE i \in 1..Len(str) :
            str[i] = c /\ \A j \in 1..(i - 1) : str[j] # c
    ELSE 0

AllDigits(str) == \A i \in 1..Len(str) : IsDigit(str[i])

\* the number a string of decimal digits denotes
RECURSIVE NumberOf(_)
NumberOf(digits) ==
    IF digits = <<>> THEN 0
    ELSE LET n == Len(digits)
         IN 10 * NumberOf(SubSeq(digits, 1, n - 1))
               + (CHOOSE d \in 0..9 : DecDigits[d + 1] = digits[n])

\* C14: eta_to_human_readable returns "--" for every input <= 0 or > 86400
\* and otherwise renders floor(seconds): as HhMMmSSs from one hour, as
\* MmSSs from one minute, else as Ss, minutes and seconds in two digits
\* under a larger unit; 30 -> "30s", 61 -> "1m01s", 3661 -> "1h01m01s",
\* 90000 -> "--".
C14_EtaRendered ==
    Called_("eta_to_human_readable") =>
        LET halves == arg[1].seconds2
            n == halves \div 2
            o == out[1]
            hp == IndexOf(o, "h")
            mp == IndexOf(o, "m")
            H == SubSeq(o, 1, hp - 1)
            M == SubSeq(o, hp + 1, mp - 1)
            S == SubSeq(o, (IF mp > hp THEN mp ELSE hp) + 1, Len(o) - 1)
        IN /\ (halves <= 0 \/ halves > 2 * 86400) <=> o = <<"-", "-">>
           /\ o # <<"-", "-">> =>
                 /\ o[Len(o)] = "s"
                 /\ S # <<>> /\ AllDigits(S) /\ AllDigits(M) /\ AllDigits(H)
                 /\ 3600 * NumberOf(H) + 60 * NumberOf(M) + NumberOf(S) = n
                 /\ NumberOf(M) < 60 /\ NumberOf(S) < 60
                 /\ n >= 3600 =>
                       /\ hp > 1 /\ H[1] # "0"
                       /\ mp = hp + 3 /\ Len(S) = 2
                 /\ (n >= 60 /\ n < 3600) =>
                       /\ hp = 0 /\ mp > 1 /\ M[1] # "0" /\ Len(S) = 2
                 /\ n < 60 =>
                       /\ hp = 0 /\ mp = 0
                       /\ Len(S) = 1 \/ S[1] # "0"
           /\ halves = 2 * 30 => o = <<"3", "0", "s">>
           /\ halves = 2 * 61 => o = <<"1", "m", "0", "1", "s">>
           /\ halves = 2 * 3661 => o = <<"1", "h", "0", "1", "m", "0", "1", "s">>
           /\ halves = 2 * 90000 => o = <<"-", "-">>

C14_Witness ==
    /\ Called_("eta_to_human_readable")
    /\ arg[1].seconds2 = 2 * 3661 + 1
    /\ out[1] = <<"1", "h", "0", "1", "m", "0", "1", "s">>

HasPrefix(str, prefix) ==
    /\ Len(str) > Len(prefix)
    /\ \A i \in 1..Len(prefix) : AsciiLower(str[i]) = prefix[i]

\* an http or https URL with something after the slashes
IsHttpLocation(str) ==
    \/ HasPrefix(str, <<"h", "t", "t", "p", ":", "/", "/">>)
    \/ HasPrefix(str, <<"h", "t", "t", "p", "s", ":", "/", "/">>)

\* digits and dots, as "127.0.0.1"
IsBareIp(str) ==
    /\ \E i \in 1..Len(str) : IsDigit(str[i])
    /\ \A i \in 1..Len(str) : IsDigit(str[i]) \/ str[i] = "."

\* C15: Location::parse accepts a location exactly when it is a valid URL
\* location (an http/https URL, or a bare IP address such as "127.0.0.1") or
\* the path of an existing readable file, as the Url or the FilePath
\* variant respectively, and returns Err for every other string.
C15_LocationAccepted ==
    Called_("Location::parse") =>
        LET str == arg[1].manifest_str
            url == IsHttpLocation(str) \/ IsBareIp(str)
            path == Exists(arg[1].file) /\ ReadOk(arg[1].file)
        IN /\ out[1].ok <=> (url \/ path)
           /\ out[1].ok =>
                 out[1].v.variant = IF url THEN "Url" ELSE "FilePath"

\* C17: the speed is the bytes of this file over the seconds since the file
\* started, and 0 when no time has elapsed; expected_time_left is
\* min(total_amount_left / speed, 86400) when speed > 0 and 0 when speed is
\* 0, so 0 <= expected_time_left <= 86400.
C17_SpeedAndEta ==
    Called_("speed") =>
        LET a == arg[1]
            speed == out[1].speed
            eta == out[1].expected_time_left
        IN /\ speed.kind = "finite"
           /\ a.elapsed = 0 => speed.num = 0
           /\ a.elapsed > 0 => speed.num * a.elapsed = a.downloaded * speed.den
           /\ eta.kind = "finite" /\ eta.den > 0
           /\ 0 <= eta.num /\ eta.num <= 86400 * eta.den
           /\ (a.elapsed > 0 /\ a.downloaded > 0) =>
                 IF a.total_amount_left * a.elapsed > 86400 * a.downloaded
                 THEN eta.num = 86400 * eta.den
                 ELSE eta.num * a.downloaded
                         = a.total_amount_left * a.elapsed * eta.den
           /\ (a.elapsed = 0 \/ a.downloaded = 0) => eta.num = 0

\* C18: for every (current, file_size) a download can report, also
\* current > file_size and file_size = 0, create_progress_bar returns
\* without fault a bar of 20 cells, the first floor(20 * current /
\* file_size) of them filled and the rest empty.
C18_BarReturned ==
    Called_("create_progress_bar") =>
        LET bar == out[1].v
            n == (PROGRESS_BAR_WIDTH * arg[1].current) \div arg[1].total
        IN /\ out[1].ok
           /\ Len(bar) = PROGRESS_BAR_WIDTH + 2
           /\ bar[1] = "[" /\ bar[Len(bar)] = "]"
           /\ \A i \in 1..PROGRESS_BAR_WIDTH : bar[i + 1] \in {"-", " "}
           /\ arg[1].total > 0 =>
                 \A i \in 1..PROGRESS_BAR_WIDTH :
                    bar[i + 1] = "-" <=> i <= n

====
